---- MODULE Spec2Model ----
(***************************************************************************)
(* State-machine model of .github/workflows/find_and_copy_deps.py: the     *)
(* work-list traversal of main() that builds binary_deps and               *)
(* binary_name_to_location_map from the lister's output, one binary at a   *)
(* time (get_deps_for_binary), the closure get_all_deps_for_binary, and    *)
(* the copy / JSON / manifest emission that follows.                       *)
(*                                                                         *)
(* A run is one execution of main().  The filesystem and the platform are  *)
(* fixed when the run starts (Init draws them from bounded sets); every    *)
(* line the lister (ldd) prints is an input read by one ReadLine step.     *)
(*                                                                         *)
(* Spec lets the lister print whatever it prints; SpecFixed fixes one      *)
(* listing per key before the run, so that runs differ only in the order   *)
(* of the work queue; FairSpec is Spec with the program never stalling.    *)
(***************************************************************************)
EXTENDS Integers, Sequences, FiniteSets, TLC

\* ------------------------------------------------------------------ bounds
\* Number of library names besides the target binary.
NumLibs == 2
\* Lines the lister prints for one binary, at most.
MaxLines == 2
\* Directory entries of the filesystem besides the target binary, at most.
MaxEntries == 2

\* --------------------------------------------------------------- universe
\* File names, in ascending lexicographic (code point) order: "I" < "l".
AllKeys == <<"IO.ofx", "libA.so", "libB.so", "libC.so", "libD.so">>

KeyRank(k) == CHOOSE i \in 1..Len(AllKeys) : AllKeys[i] = k

Keys == {AllKeys[i] : i \in 1..(NumLibs + 1)}

PosixDir(i) == [id |-> i, form |-> "posix"]
MixedDir(i) == [id |-> i, form |-> "mixed"]

\* sys.argv[3:]: the caller-supplied search directories, "/d1 /d2"
CallerDirs == <<PosixDir(1), PosixDir(2)>>
NumDirs == Len(CallerDirs)

\* Directories are numbered: 0 holds the target binary, 1..NumDirs are the
\* caller-supplied search directories, NumDirs+1 is the temporary directory
\* of main(), NumDirs+2 is a directory outside every search path where the
\* lister may report a library.  A directory name is written in POSIX form
\* ("/d1") or, after cygpath -m, in mixed form ("C:/msys64/d1").
TargetDirId == 0
TmpDirId == NumDirs + 1
ElsewhereDirId == NumDirs + 2

\* os.path.join(directory, name), os.path.dirname, os.path.basename
join(d, n) == [dir |-> d, name |-> n]
dirname(p) == p.dir
basename(p) == p.name

\* sys.argv[1]: target_binary, "/d0/IO.ofx"
target_binary == join(PosixDir(TargetDirId), AllKeys[1])

\* target_binary.endswith(".ofx"); splitext(basename(target_binary))[0] + ".dll"
EndsWithOfx(p) == basename(p) \in {"IO.ofx"}
DllName(p) == "IO.dll"

VARIABLES
    platform,       \* sys.platform
    fs,             \* the filesystem: kind of each (directory id, name)
    output_directory, \* what sys.argv[2] names: "dir", "file" or "absent"
    ldd_output,     \* the listings known before the run: key -> lines
    pc,             \* position in main()
    exit_code,      \* <<>> while running, <<c>> once the process has ended
    message,        \* the last diagnostic printed before sys.exit(1)
    search_directories,
    binary_name_to_location_map,
    binary_deps,
    deps_remaining,
    deps_visited,
    x,              \* the binary the loop body is processing
    line,           \* get_deps_for_binary: the line read and not yet handled
    lines_read,     \* get_deps_for_binary: how many lines were read
    ret,            \* get_deps_for_binary: ret
    dep_info_list,  \* pairs of dep_info_list the for loop has yet to visit
    deps_for_this_library,
    deps_list,      \* get_all_deps_for_binary: deps_list
    closure_ret,    \* get_all_deps_for_binary: ret
    full_deps_list,
    copied,         \* shutil.copy calls made, in order
    json_file,      \* what --json wrote, <<>> when nothing
    manifest_file   \* what --manifest wrote, <<>> when nothing

\* What a run starts with and never changes.
world == <<platform, fs, output_directory, ldd_output>>

vars == <<world, pc, exit_code, message, search_directories,
          binary_name_to_location_map, binary_deps, deps_remaining,
          deps_visited, x, line, lines_read, ret, dep_info_list,
          deps_for_this_library, deps_list, closure_ret, full_deps_list,
          copied, json_file, manifest_file>>

\* ------------------------------------------------------------- filesystem
Cells == (0..NumDirs) \X Keys
TargetCell == <<TargetDirId, AllKeys[1]>>

\* A cell holds nothing, a regular file of its own, a directory, or a link
\* to the entry of the same name in the target's directory.
EntryKinds(c) == IF c[1] = TargetDirId THEN {"file", "dir"}
                 ELSE {"file", "dir", "link"}

\* What a path resolves to, following a link.
KindOf(p) ==
    IF p.dir.id = TmpDirId
    THEN IF p.name = DllName(target_binary) /\ platform = "win32"
            /\ EndsWithOfx(target_binary)
         THEN "file" ELSE "absent"
    ELSE IF <<p.dir.id, p.name>> \notin Cells THEN "absent"
    ELSE IF fs[<<p.dir.id, p.name>>] = "link"
         THEN fs[<<TargetDirId, p.name>>]
         ELSE fs[<<p.dir.id, p.name>>]

\* The underlying file of a path that exists.
Inode(p) ==
    IF p.dir.id \in 0..NumDirs /\ <<p.dir.id, p.name>> \in Cells
       /\ fs[<<p.dir.id, p.name>>] = "link"
    THEN <<TargetDirId, p.name>>
    ELSE <<p.dir.id, p.name>>

exists(p) == KindOf(p) # "absent"
isfile(p) == KindOf(p) = "file"
samefile(p, q) == Inode(p) = Inode(q)

\* The filesystems a run may start in: the target binary plus at most
\* MaxEntries other entries; or no target, or a directory in its place.
Filesystems ==
    LET Others == Cells \ {TargetCell}
        Entries == {S \in SUBSET Others : Cardinality(S) <= MaxEntries}
        With(S, f, t) == [c \in Cells |-> IF c = TargetCell THEN t
                                          ELSE IF c \in S THEN f[c]
                                          ELSE "absent"]
    IN  UNION {{With(S, f, "file") :
                  f \in {g \in [S -> {"file", "dir", "link"}] :
                           \A c \in S : g[c] \in EntryKinds(c)}} :
               S \in Entries}
        \cup {With({}, <<>>, t) : t \in {"absent", "dir"}}


\* ---------------------------------------------------------------- helpers
\* The names of S from the greatest to the least.
RECURSIVE sorted_descending(_)
sorted_descending(S) ==
    IF S = {} THEN <<>>
    ELSE LET greatest == CHOOSE k \in S : \A j \in S : KeyRank(k) >= KeyRank(j)
         IN  <<greatest>> \o sorted_descending(S \ {greatest})

\* sorted(S) for a set of names
RECURSIVE sorted(_)
sorted(S) ==
    IF S = {} THEN <<>>
    ELSE LET least == CHOOSE k \in S : \A j \in S : KeyRank(k) <= KeyRank(j)
         IN  <<least>> \o sorted(S \ {least})

Range(s) == {s[i] : i \in 1..Len(s)}

fix_location(location_path) ==
    IF platform = "win32" /\ location_path.dir.form = "posix"
    THEN join(MixedDir(location_path.dir.id), location_path.name)
    ELSE location_path

\* ------------------------------------------------------- the lister's lines
\* What ldd reports after "=>": no location, a location outside the search
\* path, a Windows system directory, a glibc library of the platform.
LddLocations == {"not found", "/usr/lib", "/c/Windows/System32",
                 "/lib/x86_64-linux-gnu/libm.so.6"}

\* Lines the pattern "^([^ ]+) => ([^(]+)( (.*))?$" does not match.
OtherTexts == {"linux-vdso.so.1 (0x00007ffc)", "ldd: warning"}

Entry(n, l) == [m |-> TRUE, dep_name |-> n, ldd_dep_location |-> l, text |-> ""]
Other(t) == [m |-> FALSE, dep_name |-> "", ldd_dep_location |-> "", text |-> t]
\* readline() at end of output, and the value of line before the first read
NoLine == Other("")

Lines == {Entry(n, l) : n \in Keys, l \in LddLocations}
         \cup {Other(t) : t \in OtherTexts}

\* The location the lister reported, as a path (it is outside every
\* directory the run searches).
RawPath(dep_name) == join(PosixDir(ElsewhereDirId), dep_name)

system_libs_to_skip ==
    IF platform = "linux"
    THEN {"libc.so", "libdl.so", "libdrm.so", "libm.so", "libpthread.so",
          "libresolv.so", "libselinux.so", "libudev.so", "libGL.so",
          "libGLX.so", "libGLdispatch.so", "libX11.so", "libXau.so",
          "libXdmcp.so", "libXext.so", "libXfixes.so", "libXrender.so"}
    ELSE {}

\* lib_name in ldd_dep_location, for the sample locations
Contains(ldd_dep_location, lib_name) ==
    ldd_dep_location = "/lib/x86_64-linux-gnu/libm.so.6" /\ lib_name = "libm.so"

\* "/c/windows/system" in lower() or "/c/windows/winsxs/" in lower()
InWindowsSystem(ldd_dep_location) == ldd_dep_location = "/c/Windows/System32"

\* Every line the pattern does not match is passed over.
benign_always(text) == TRUE

\* "linux-vdso.so.1" in line or "ld-linux-x86-64.so" in line or
\* "statically linked" in line, for the sample lines
benign(text) == text \in {"linux-vdso.so.1 (0x00007ffc)",
                          "/lib64/ld-linux-x86-64.so.2 (0x00007f1c)",
                          "statically linked"}

\* A filter that lets an entry naming the listed binary itself through.
skip_entry_but_self(dep_name, ldd_dep_location, my_name) ==
    \/ InWindowsSystem(ldd_dep_location)
    \/ \E lib_name \in system_libs_to_skip : Contains(ldd_dep_location, lib_name)

\* A filter that looks at the name only, never at the reported location.
skip_entry_self_only(dep_name, ldd_dep_location, my_name) ==
    dep_name = my_name

\* Skip self, Windows DLLs, and platform system libraries.
skip_entry(dep_name, ldd_dep_location, my_name) ==
    \/ dep_name = my_name
    \/ InWindowsSystem(ldd_dep_location)
    \/ \E lib_name \in system_libs_to_skip : Contains(ldd_dep_location, lib_name)

\* A search that keeps the last match, not the first.
find_last_in_search_directories(dirs, dep_name) ==
    LET hits == {i \in 1..Len(dirs) : isfile(join(dirs[i], dep_name))}
    IN  IF hits = {} THEN <<>>
        ELSE <<join(dirs[CHOOSE i \in hits : \A j \in hits : i >= j], dep_name)>>

\* for x in search_directories: ... break; <<>> stands for None
find_in_search_directories(dirs, dep_name) ==
    LET hits == {i \in 1..Len(dirs) :
                   /\ exists(join(dirs[i], dep_name))
                   /\ isfile(join(dirs[i], dep_name))}
    IN  IF hits = {} THEN <<>>
        ELSE <<join(dirs[CHOOSE i \in hits : \A j \in hits : i <= j], dep_name)>>

\* The search found nothing and the entry is dropped without a word.
on_unresolved_ignore(dep_name, ldd_dep_location) ==
    [act |-> "continue", msg |-> "", pairs |-> {}]

\* The search found nothing and the lister's own location is taken.
on_unresolved_trust_ldd(dep_name, ldd_dep_location) ==
    IF ldd_dep_location = "not found"
    THEN [act |-> "exit", msg |-> "ldd could not find its location", pairs |-> {}]
    ELSE [act |-> "add", msg |-> "", pairs |-> {<<dep_name, RawPath(dep_name)>>}]

\* The two branches taken when the search found nothing.
on_unresolved(dep_name, ldd_dep_location) ==
    IF ldd_dep_location = "not found"
    THEN [act |-> "exit", msg |-> "ldd could not find its location", pairs |-> {}]
    ELSE [act |-> "exit", msg |-> "Please update search paths", pairs |-> {}]

\* One pass of the while loop of get_deps_for_binary over line l.
get_deps_for_line(l, binary_path, dirs) ==
    IF l.m
    THEN IF skip_entry(l.dep_name, l.ldd_dep_location, basename(binary_path))
         THEN [act |-> "continue", msg |-> "", pairs |-> {}]
         ELSE LET search_dep_location == find_in_search_directories(dirs, l.dep_name)
              IN  IF search_dep_location # <<>>
                  THEN [act |-> "add", msg |-> "",
                        pairs |-> {<<l.dep_name, fix_location(search_dep_location[1])>>}]
                  ELSE on_unresolved(l.dep_name, l.ldd_dep_location)
    ELSE IF benign(l.text)
         THEN [act |-> "continue", msg |-> "", pairs |-> {}]
         ELSE [act |-> "exit", msg |-> "Unexpected line in ldd output", pairs |-> {}]

\* The directory appended for the lookup is left on the list.
keep_search_directory(dirs) == dirs

\* search_directories.pop()
pop_search_directory(dirs) == SubSeq(dirs, 1, Len(dirs) - 1)

\* The first location is kept and a different file is not noticed.
record_location_unchecked(map, dep_name, dep_location) ==
    IF dep_name \notin DOMAIN map
    THEN [conflict |-> FALSE, map |-> map @@ (dep_name :> dep_location)]
    ELSE [conflict |-> FALSE, map |-> map]

\* The latest location replaces the recorded one.
record_location_overwrite(map, dep_name, dep_location) ==
    [conflict |-> FALSE,
     map |-> [k \in DOMAIN map \cup {dep_name} |->
                IF k = dep_name THEN dep_location ELSE map[k]]]

\* Locations are compared as path strings, not as files.
record_location_by_path(map, dep_name, dep_location) ==
    IF dep_name \notin DOMAIN map
    THEN [conflict |-> FALSE, map |-> map @@ (dep_name :> dep_location)]
    ELSE IF map[dep_name] # dep_location
         THEN [conflict |-> TRUE, map |-> map]
         ELSE [conflict |-> FALSE, map |-> map]

\* Recording one resolved dependency: the new map, or a conflict.
record_location(map, dep_name, dep_location) ==
    IF dep_name \notin DOMAIN map
    THEN [conflict |-> FALSE, map |-> map @@ (dep_name :> dep_location)]
    ELSE IF ~samefile(map[dep_name], dep_location)
         THEN [conflict |-> TRUE, map |-> map]
         ELSE [conflict |-> FALSE, map |-> map]

\* The binary popped is remembered, and with it every key sorting before it.
mark_through(visited, k) ==
    visited \cup {j \in Keys : KeyRank(j) <= KeyRank(k)}

\* The binary popped is not remembered.
mark_nothing(visited, k) == visited

\* Only the binary popped last is remembered.
mark_latest(visited, k) == {k}

\* deps_visited.add(x)
mark_visited(visited, k) == visited \cup {k}

\* A dependency is added only while nothing else is pending.
enqueue_when_idle(remaining, visited, dep_name) ==
    IF dep_name \notin visited /\ remaining = {} THEN {dep_name} ELSE remaining

\* The dependency is never added to the work queue.
enqueue_nothing(remaining, visited, dep_name) == remaining

\* if dep_name not in deps_visited: deps_remaining.add(dep_name)
enqueue(remaining, visited, dep_name) ==
    IF dep_name \notin visited THEN remaining \cup {dep_name} ELSE remaining

\* A closure that never follows the edges of a discovered key.
extend_nothing(items, graph, dep) == items

\* deps_list += json_dict["binary_deps"][dep]
extend(items, graph, dep) == items \o graph[dep]

\* json_dict["binary_deps"][binary_key_name] without .copy(): deps_list is
\* the list object stored in binary_deps under key.
list_alias(graph, key) == [alias |-> key, items |-> graph[key]]

\* json_dict["binary_deps"][binary_key_name].copy(): a list of its own;
\* alias names the key of binary_deps whose list object this one is.
list_copy(graph, key) == [alias |-> "", items |-> graph[key]]

\* ------------------------------------------------------------------ Init
\* The filesystem that holds the target binary and nothing else.
TargetOnly == [c \in Cells |-> IF c = TargetCell THEN "file" ELSE "absent"]

NoMap == [k \in {} |-> k]

\* The listing of one binary that names the libraries of N, in key order.
FixedListing(N) == [i \in 1..Cardinality(N) |-> Entry(sorted(N)[i], "/usr/lib")]

\* One listing for every key, each of MaxLines lines at most: entries, or
\* one line that is no entry.
FixedListings ==
    [Keys -> {FixedListing(N) : N \in {M \in SUBSET Keys : Cardinality(M) <= MaxLines}}
             \cup {<<Other("ldd: warning")>>}]

\* main() before its first statement.
InitRun ==
    /\ pc = "start"
    /\ exit_code = <<>>
    /\ message = ""
    /\ search_directories = CallerDirs
    /\ binary_name_to_location_map = NoMap
    /\ binary_deps = NoMap
    /\ deps_remaining = {}
    /\ deps_visited = {}
    /\ x = ""
    /\ line = NoLine
    /\ lines_read = 0
    /\ ret = {}
    /\ dep_info_list = {}
    /\ deps_for_this_library = {}
    /\ deps_list = [alias |-> "", items |-> <<>>]
    /\ closure_ret = {}
    /\ full_deps_list = <<>>
    /\ copied = <<>>
    /\ json_file = <<>>
    /\ manifest_file = <<>>

\* A run in which the lister prints whatever it prints, line by line.
Init ==
    /\ platform \in {"linux", "win32"}
    /\ fs \in Filesystems
    /\ output_directory \in {"dir", "file", "absent"}
    /\ output_directory # "dir" => fs = TargetOnly
    /\ ldd_output = NoMap
    /\ InitRun

\* A run with valid arguments in which the lister's output for every key is
\* fixed before the run starts.
InitFixed ==
    /\ platform \in {"linux", "win32"}
    /\ fs \in {f \in Filesystems : f[TargetCell] = "file"}
    /\ output_directory = "dir"
    /\ ldd_output \in FixedListings
    /\ InitRun

\* sys.exit(1), and an uncaught exception: the process ends with code 1
SystemExit(msg) ==
    /\ pc' = "exit"
    /\ exit_code' = <<1>>
    /\ message' = msg

\* ---------------------------------------------------------------- main()
\* The checks of the arguments and the set-up before the loop.
ldd_filename_path ==
    IF platform = "win32" /\ EndsWithOfx(target_binary)
    THEN join(MixedDir(TmpDirId), DllName(target_binary))
    ELSE target_binary

binary_key_name == basename(target_binary)

CheckArguments ==
    /\ pc = "start"
    /\  IF ~exists(target_binary)
        THEN /\ SystemExit("does not exist")
             /\ UNCHANGED <<binary_name_to_location_map, deps_remaining>>
        ELSE IF ~isfile(target_binary)
        THEN /\ SystemExit("is not a file")
             /\ UNCHANGED <<binary_name_to_location_map, deps_remaining>>
        ELSE IF output_directory # "dir"
        THEN /\ SystemExit("")
             /\ UNCHANGED <<binary_name_to_location_map, deps_remaining>>
        ELSE /\ binary_name_to_location_map' = (binary_key_name :> ldd_filename_path)
             /\ deps_remaining' = {binary_key_name}
             /\ pc' = "loop"
             /\ UNCHANGED <<exit_code, message>>
    /\ UNCHANGED <<world, search_directories, binary_deps, deps_visited,
                   x, line, lines_read, ret, dep_info_list,
                   deps_for_this_library, deps_list, closure_ret,
                   full_deps_list, copied, json_file, manifest_file>>

\* x = deps_remaining.pop() and the loop body up to the start of the lister.
PopBinary ==
    /\ pc = "loop"
    /\ \E k \in deps_remaining :
        /\ deps_remaining' = deps_remaining \ {k}
        /\ IF k \in deps_visited
           THEN UNCHANGED <<pc, deps_visited, x, search_directories>>
           ELSE /\ deps_visited' = mark_visited(deps_visited, k)
                /\ x' = k
                /\ search_directories' =
                       Append(search_directories,
                              dirname(binary_name_to_location_map[k]))
                /\ pc' = "ldd"
    /\ UNCHANGED <<world, exit_code, message,
                   binary_name_to_location_map, binary_deps, line, lines_read,
                   ret, dep_info_list, deps_for_this_library, deps_list,
                   closure_ret, full_deps_list, copied, json_file,
                   manifest_file>>

\* get_deps_for_binary: line = proc.stdout.readline().  The lister prints one
\* more line, or its output has ended (NoLine).
ReadLine ==
    /\ pc = "ldd"
    /\ \E l \in Lines \cup {NoLine} :
        /\ IF x \in DOMAIN ldd_output
           THEN l = IF lines_read < Len(ldd_output[x])
                    THEN ldd_output[x][lines_read + 1] ELSE NoLine
           ELSE l # NoLine => lines_read < MaxLines
        /\ line' = l
        /\ lines_read' = IF l = NoLine THEN lines_read ELSE lines_read + 1
    /\ pc' = "line"
    /\ UNCHANGED <<world, exit_code, message, search_directories,
                   binary_name_to_location_map, binary_deps, deps_remaining,
                   deps_visited, x, ret, dep_info_list, deps_for_this_library,
                   deps_list, closure_ret, full_deps_list, copied, json_file,
                   manifest_file>>

\* The loop body for the line just read; line is not read again before the
\* next readline() overwrites it.
HandleLine ==
    /\ pc = "line"
    /\ line # NoLine
    /\ LET r == get_deps_for_line(line, binary_name_to_location_map[x],
                                  search_directories)
       IN  /\ ret' = ret \cup r.pairs
           /\ IF r.act = "exit"
              THEN /\ SystemExit(r.msg)
                   /\ UNCHANGED line
              ELSE /\ pc' = "ldd"
                   /\ line' = NoLine
                   /\ UNCHANGED <<exit_code, message>>
    /\ UNCHANGED <<world, search_directories,
                   binary_name_to_location_map, binary_deps, deps_remaining,
                   deps_visited, x, lines_read, dep_info_list,
                   deps_for_this_library, deps_list, closure_ret,
                   full_deps_list, copied, json_file, manifest_file>>

\* "if not line: break": get_deps_for_binary returns ret, main pops the
\* directory it appended and starts the for loop over dep_info_list.
ReturnDeps ==
    /\ pc = "line"
    /\ line = NoLine
    /\ lines_read' = 0
    /\ ret' = {}
    /\ dep_info_list' = ret
    /\ search_directories' = pop_search_directory(search_directories)
    /\ deps_for_this_library' = {}
    /\ pc' = "record"
    /\ UNCHANGED <<world, exit_code, message,
                   binary_name_to_location_map, binary_deps, deps_remaining,
                   deps_visited, x, line, deps_list, closure_ret,
                   full_deps_list, copied, json_file, manifest_file>>

\* One pass of "for (dep_name, dep_location) in dep_info_list".
RecordDep ==
    /\ pc = "record"
    /\ \E pair \in dep_info_list :
        LET dep_name == pair[1]
            dep_location == pair[2]
            r == record_location(binary_name_to_location_map, dep_name,
                                 dep_location)
        IN  /\ dep_info_list' = dep_info_list \ {pair}
            /\ deps_for_this_library' = deps_for_this_library \cup {dep_name}
            /\ binary_name_to_location_map' = r.map
            /\ IF r.conflict
               THEN /\ SystemExit("appears to have more than one location")
                    /\ UNCHANGED deps_remaining
               ELSE /\ deps_remaining' =
                          enqueue(deps_remaining, deps_visited, dep_name)
                    /\ UNCHANGED <<pc, exit_code, message>>
    /\ UNCHANGED <<world, search_directories, binary_deps,
                   deps_visited, x, line, lines_read, ret, deps_list,
                   closure_ret, full_deps_list, copied, json_file,
                   manifest_file>>

\* binary_deps[x] = sorted(deps_for_this_library)
FinishBinary ==
    /\ pc = "record"
    /\ dep_info_list = {}
    /\ binary_deps' = [k \in DOMAIN binary_deps \cup {x} |->
                         IF k = x THEN sorted(deps_for_this_library)
                         ELSE binary_deps[k]]
    /\ pc' = "loop"
    /\ UNCHANGED <<world, exit_code, message, search_directories,
                   binary_name_to_location_map, deps_remaining, deps_visited,
                   x, line, lines_read, ret, dep_info_list,
                   deps_for_this_library, deps_list,
                   closure_ret, full_deps_list, copied, json_file,
                   manifest_file>>

\* The loop ends; json_dict is built and get_all_deps_for_binary is entered.
\* json_dict["binary_deps"] is binary_deps itself, not a copy.
StartClosure ==
    /\ pc = "loop"
    /\ deps_remaining = {}
    /\ IF binary_key_name \notin DOMAIN binary_deps
       THEN \* returns None, and sorted(None) raises TypeError
            /\ SystemExit("TypeError")
            /\ UNCHANGED <<deps_list, closure_ret>>
       ELSE /\ closure_ret' = {}
            /\ deps_list' = list_copy(binary_deps, binary_key_name)
            /\ pc' = "closure"
            /\ UNCHANGED <<exit_code, message>>
    /\ UNCHANGED <<world, search_directories,
                   binary_name_to_location_map, binary_deps, deps_remaining,
                   deps_visited, x, line, lines_read, ret, dep_info_list,
                   deps_for_this_library, full_deps_list, copied, json_file,
                   manifest_file>>

\* The graph as it is once list object `list` holds `items`.
graph_with(graph, list, items) ==
    IF list.alias = "" THEN graph
    ELSE [graph EXCEPT ![list.alias] = items]

\* One pass of "while len(deps_list) > 0": dep = deps_list.pop(), and
\* deps_list += json_dict["binary_deps"][dep] when dep is new.
ClosureStep ==
    /\ pc = "closure"
    /\ Len(deps_list.items) > 0
    /\ LET dep == deps_list.items[Len(deps_list.items)]
           popped == SubSeq(deps_list.items, 1, Len(deps_list.items) - 1)
           graph == graph_with(binary_deps, deps_list, popped)
       IN  IF dep \in closure_ret
           THEN /\ deps_list' = [deps_list EXCEPT !.items = popped]
                /\ binary_deps' = graph
                /\ UNCHANGED <<closure_ret, pc, exit_code, message>>
           ELSE IF dep \notin DOMAIN graph
           THEN /\ SystemExit("KeyError")
                /\ closure_ret' = closure_ret \cup {dep}
                /\ deps_list' = [deps_list EXCEPT !.items = popped]
                /\ binary_deps' = graph
           ELSE /\ closure_ret' = closure_ret \cup {dep}
                /\ deps_list' = [deps_list EXCEPT
                                    !.items = extend(popped, graph, dep)]
                /\ binary_deps' = graph_with(graph, deps_list,
                                             extend(popped, graph, dep))
                /\ UNCHANGED <<pc, exit_code, message>>
    /\ UNCHANGED <<world, search_directories,
                   binary_name_to_location_map, deps_remaining, deps_visited,
                   x, line, lines_read, ret, dep_info_list,
                   deps_for_this_library, full_deps_list, copied, json_file,
                   manifest_file>>

\* get_all_deps_for_binary returns; full_deps_list = sorted(...)
ClosureReturn ==
    /\ pc = "closure"
    /\ Len(deps_list.items) = 0
    /\ full_deps_list' = sorted(closure_ret)
    /\ pc' = "copy"
    /\ UNCHANGED <<world, exit_code, message, search_directories,
                   binary_name_to_location_map, binary_deps, deps_remaining,
                   deps_visited, x, line, lines_read, ret, dep_info_list,
                   deps_for_this_library, deps_list, closure_ret, copied,
                   json_file, manifest_file>>

\* One pass of "for x in full_deps_list": shutil.copy(src, output_directory)
CopyFile ==
    /\ pc = "copy"
    /\ Len(copied) < Len(full_deps_list)
    /\ LET next == full_deps_list[Len(copied) + 1]
       IN  /\ x' = next
           /\ IF next \notin DOMAIN binary_name_to_location_map
              THEN /\ SystemExit("KeyError")
                   /\ UNCHANGED copied
              ELSE /\ copied' = Append(copied,
                                       [name |-> next,
                                        src |-> binary_name_to_location_map[next]])
                   /\ UNCHANGED <<pc, exit_code, message>>
    /\ UNCHANGED <<world, search_directories,
                   binary_name_to_location_map, binary_deps, deps_remaining,
                   deps_visited, line, lines_read, ret, dep_info_list,
                   deps_for_this_library, deps_list, closure_ret,
                   full_deps_list, json_file, manifest_file>>

\* if cmd_line_args.json: json.dump(json_dict, ...)
WriteJson ==
    /\ pc = "copy"
    /\ Len(copied) = Len(full_deps_list)
    /\ \E json_given \in BOOLEAN :
        json_file' = IF json_given
                     THEN <<[binary_deps |-> binary_deps,
                             binary_locations |-> binary_name_to_location_map]>>
                     ELSE <<>>
    /\ pc' = "manifest"
    /\ UNCHANGED <<world, exit_code, message, search_directories,
                   binary_name_to_location_map, binary_deps, deps_remaining,
                   deps_visited, x, line, lines_read, ret, dep_info_list,
                   deps_for_this_library, deps_list, closure_ret,
                   full_deps_list, copied, manifest_file>>

\* if cmd_line_args.manifest: ...; then main() returns and the process ends.
WriteManifest ==
    /\ pc = "manifest"
    /\ \E manifest_given \in BOOLEAN :
        manifest_file' = IF manifest_given
                         THEN <<[assemblyIdentity |-> basename(target_binary),
                                 files |-> full_deps_list]>>
                         ELSE <<>>
    /\ pc' = "exit"
    /\ exit_code' = <<0>>
    /\ UNCHANGED <<world, message, search_directories,
                   binary_name_to_location_map, binary_deps, deps_remaining,
                   deps_visited, x, line, lines_read, ret, dep_info_list,
                   deps_for_this_library, deps_list, closure_ret,
                   full_deps_list, copied, json_file>>

Next ==
    \/ CheckArguments
    \/ PopBinary
    \/ ReadLine
    \/ HandleLine
    \/ ReturnDeps
    \/ RecordDep
    \/ FinishBinary
    \/ StartClosure
    \/ ClosureStep
    \/ ClosureReturn
    \/ CopyFile
    \/ WriteJson
    \/ WriteManifest

Spec == Init /\ [][Next]_vars

\* The same program on listings fixed before the run.
SpecFixed == InitFixed /\ [][Next]_vars

\* main() is one sequential process: while it has not ended it takes its
\* next step (the lister prints its next line or ends its output).
FairSpec == Spec /\ WF_vars(Next)

\* ------------------------------------------- the build loop in one order
\* The loop of main() over listings fixed before the run, as a function of
\* the platform, the filesystem and ldd_output, for the run in which
\* deps_remaining.pop() and the for loop over dep_info_list both take the
\* least name first.

\* get_deps_for_binary on the lines of output: ret, or the fatal exit.
RECURSIVE get_deps_for_binary(_, _, _)
get_deps_for_binary(binary_path, dirs, output) ==
    IF output = <<>> THEN [fatal |-> FALSE, ret |-> {}]
    ELSE LET r == get_deps_for_line(Head(output), binary_path, dirs)
             rest == get_deps_for_binary(binary_path, dirs, Tail(output))
         IN  IF r.act = "exit" THEN [fatal |-> TRUE, ret |-> {}]
             ELSE [fatal |-> rest.fatal, ret |-> r.pairs \cup rest.ret]

\* for (dep_name, dep_location) in dep_info_list, least name first
RECURSIVE record_deps(_, _)
record_deps(pairs, st) ==
    IF pairs = {} THEN st
    ELSE LET pair == CHOOSE p \in pairs :
                        \A q \in pairs : KeyRank(p[1]) <= KeyRank(q[1])
             r == record_location(st.map, pair[1], pair[2])
         IN  IF r.conflict THEN [st EXCEPT !.fatal = TRUE]
             ELSE record_deps(pairs \ {pair},
                      [st EXCEPT !.map = r.map,
                                 !.remaining = enqueue(st.remaining, st.visited,
                                                       pair[1])])

\* while len(deps_remaining) > 0, the least key popped first
RECURSIVE build_loop(_)
build_loop(st) ==
    IF st.fatal \/ st.remaining = {} THEN st
    ELSE LET k == CHOOSE a \in st.remaining :
                     \A b \in st.remaining : KeyRank(a) <= KeyRank(b)
             popped == [st EXCEPT !.remaining = st.remaining \ {k}]
         IN  IF k \in st.visited THEN build_loop(popped)
             ELSE LET listed == get_deps_for_binary(
                                    st.map[k],
                                    Append(CallerDirs, dirname(st.map[k])),
                                    ldd_output[k])
                      rec == record_deps(listed.ret,
                                 [popped EXCEPT
                                     !.visited = mark_visited(st.visited, k)])
                  IN  IF listed.fatal \/ rec.fatal
                      THEN [st EXCEPT !.fatal = TRUE]
                      ELSE build_loop(
                               [rec EXCEPT !.deps =
                                   [j \in DOMAIN st.deps \cup {k} |->
                                       IF j = k
                                       THEN sorted({p[1] : p \in listed.ret})
                                       ELSE st.deps[j]]])

\* main() from line 146 to the end of the while loop.
build_graph ==
    build_loop([map |-> (binary_key_name :> ldd_filename_path),
                deps |-> NoMap,
                remaining |-> {binary_key_name},
                visited |-> {},
                fatal |-> FALSE])

\* =================================================================== claims
\* Vocabulary of the claims.

\* The keys one edge away from a key of S.
Successors(graph, S) ==
    UNION {Range(graph[k]) : k \in S \cap DOMAIN graph}

\* The keys reachable from key by one or more edges of graph.
RECURSIVE ReachableFrom(_, _)
ReachableFrom(graph, S) ==
    LET more == S \cup Successors(graph, S)
    IN  IF more = S THEN S ELSE ReachableFrom(graph, more)

Reachable(graph, key) == ReachableFrom(graph, Successors(graph, {key}))

Acyclic(graph) == \A k \in DOMAIN graph : k \notin Reachable(graph, k)

\* get_all_deps_for_binary has returned.
ClosureReturned ==
    \/ pc \in {"copy", "manifest"}
    \/ pc = "exit" /\ exit_code = <<0>>

Fatal == pc = "exit" /\ exit_code = <<1>>

NoOutput == copied = <<>> /\ json_file = <<>> /\ manifest_file = <<>>

\* The directories searched for the dependencies of binary k.
SearchedFor(k) ==
    CallerDirs \o <<dirname(binary_name_to_location_map[k])>>

\* The first directory of dirs, in order, that holds a regular file n.
RECURSIVE FirstDirWith(_, _)
FirstDirWith(dirs, n) ==
    IF dirs = <<>> THEN <<>>
    ELSE IF KindOf(join(Head(dirs), n)) = "file" THEN <<Head(dirs)>>
    ELSE FirstDirWith(Tail(dirs), n)

\* Line l of the listing of binary k is an entry the filter lets through.
Unfiltered(l, k) ==
    /\ l.m
    /\ l.dep_name # basename(binary_name_to_location_map[k])
    /\ l.ldd_dep_location \notin {"/c/Windows/System32"}
    /\ ~(platform = "linux"
         /\ l.ldd_dep_location = "/lib/x86_64-linux-gnu/libm.so.6")

\* C1: when the build loop has ended without a fatal exit on an acyclic
\* graph, get_all_deps_for_binary returns exactly the keys reachable from
\* the root by one or more edges of binary_deps, in every run (every order
\* of deps_remaining.pop()), and full_deps_list lists that set.
C1_ClosureIsReachableSet ==
    (ClosureReturned /\ Acyclic(binary_deps))
        => /\ closure_ret = Reachable(binary_deps, binary_key_name)
           /\ Range(full_deps_list) = Reachable(binary_deps, binary_key_name)

\* A chain root -> a -> b in which b is no direct dependency of the root.
C1_Witness ==
    /\ ClosureReturned
    /\ Acyclic(binary_deps)
    /\ \E a, b \in closure_ret :
        /\ a \in Range(binary_deps[binary_key_name])
        /\ b \notin Range(binary_deps[binary_key_name])
        /\ b \in Range(binary_deps[a])

\* C2: the set get_all_deps_for_binary returns never contains the root key,
\* also when a dependency lists the root as its own dependency.
C2_ClosureExcludesRoot ==
    ClosureReturned => binary_key_name \notin closure_ret

\* Two caller-supplied directories hold regular files named n that are
\* different underlying files.
TwoCallerCopies(n) ==
    \E i, j \in 1..Len(CallerDirs) :
        /\ i < j
        /\ isfile(join(CallerDirs[i], n))
        /\ isfile(join(CallerDirs[j], n))
        /\ ~samefile(join(CallerDirs[i], n), join(CallerDirs[j], n))

\* n is an unfiltered dependency of a binary the traversal has processed.
DependencyReached(n) ==
    \E k \in DOMAIN binary_deps : n \in Range(binary_deps[k])

\* The location get_deps_for_binary gives name n when dirs are searched.
ResolvedIn(dirs, n) == fix_location(join(FirstDirWith(dirs, n)[1], n))

ConflictReported == message = "appears to have more than one location"

\* C3 as stated: when two caller-supplied directories hold different regular
\* files of one name and the name is an unfiltered dependency of a binary
\* reached, the run exits non-zero reporting a conflict and copies nothing.
C3_TwoCopiesAreAConflict ==
    \A n \in Keys :
        (TwoCallerCopies(n) /\ DependencyReached(n))
            => /\ copied = <<>>
               /\ pc = "exit" => (exit_code = <<1>> /\ ConflictReported)

\* C3 as amended: such a name is resolved, every time, to the file in the
\* first of the caller-supplied directories that holds it, and that is no
\* conflict; a conflict is reported only when a name is resolved to a file
\* that is not the underlying file already recorded for it, and then the
\* run exits non-zero with nothing copied.
C3_FirstCopyWins ==
    /\ \A pair \in ret \cup dep_info_list :
          TwoCallerCopies(pair[1]) => pair[2] = ResolvedIn(CallerDirs, pair[1])
    /\ \A n \in DOMAIN binary_name_to_location_map \ {binary_key_name} :
          TwoCallerCopies(n)
              => binary_name_to_location_map[n] = ResolvedIn(CallerDirs, n)
    /\ ConflictReported
          => /\ Fatal
             /\ copied = <<>>
             /\ \E n \in deps_for_this_library :
                   /\ n \in DOMAIN binary_name_to_location_map
                   /\ FirstDirWith(SearchedFor(x), n) # <<>>
                   /\ ~samefile(binary_name_to_location_map[n],
                                ResolvedIn(SearchedFor(x), n))

\* A run that copied a library of which two caller-supplied directories hold
\* different files.
C3_Witness ==
    \E i \in 1..Len(copied) :
        /\ TwoCallerCopies(copied[i].name)
        /\ copied[i].src = ResolvedIn(CallerDirs, copied[i].name)

\* The line being handled is an unfiltered entry the lister could not locate.
NotFoundEntry ==
    /\ pc = "line"
    /\ line # NoLine
    /\ Unfiltered(line, x)
    /\ line.ldd_dep_location = "not found"

\* The line being handled is an unfiltered entry whose name is no regular
\* file in any directory searched for x.
UnresolvedEntry ==
    /\ pc = "line"
    /\ line # NoLine
    /\ Unfiltered(line, x)
    /\ FirstDirWith(SearchedFor(x), line.dep_name) = <<>>

\* C4 as stated: an unfiltered entry reported "not found" makes the run exit
\* non-zero with nothing copied, whatever the search directories contain.
C4_NotFoundAlwaysExits ==
    [][NotFoundEntry => (pc' = "exit" /\ exit_code' = <<1>> /\ copied' = <<>>)]_vars

\* C4 as amended: an unfiltered entry reported "not found" whose name is no
\* regular file in any directory searched for the binary makes the run exit
\* non-zero with nothing copied into the output directory.
C4_NotFoundUnresolvedExits ==
    /\ [][(NotFoundEntry /\ UnresolvedEntry)
            => /\ pc' = "exit"
               /\ exit_code' = <<1>>
               /\ message' = "ldd could not find its location"
               /\ copied' = <<>>]_vars
    /\ [](message = "ldd could not find its location" => (Fatal /\ NoOutput))

\* The root's listing holds "libA.so => not found", and the run has ended.
C4_Witness ==
    /\ Fatal
    /\ x = binary_key_name
    /\ line = Entry(AllKeys[2], "not found")
    /\ message = "ldd could not find its location"

\* C5: an unfiltered entry whose name is no regular file in any searched
\* directory aborts the run, whether the lister reported "not found" or a
\* location; so every location recorded for a key other than the root is
\* (fix_location of) <searched directory>/<name>, found as a regular file.
C5_UnresolvedAborts ==
    /\ [][UnresolvedEntry => (pc' = "exit" /\ exit_code' = <<1>>)]_vars
    /\ [](\A k \in DOMAIN binary_name_to_location_map \ {binary_key_name} :
            \E d \in Range(CallerDirs)
                     \cup {dirname(binary_name_to_location_map[v]) :
                             v \in deps_visited} :
                /\ isfile(join(d, k))
                /\ binary_name_to_location_map[k] = fix_location(join(d, k)))

\* The lister located a library that no searched directory holds.
C5_Witness ==
    /\ Fatal
    /\ line.m
    /\ line.ldd_dep_location = "/usr/lib"
    /\ message = "Please update search paths"

\* The arguments fail the checks main() makes before anything else.
InvalidArguments ==
    /\ pc = "start"
    /\ \/ KindOf(target_binary) # "file"
       \/ output_directory # "dir"

\* The line being handled is neither an entry nor a benign skip line.
UnrecognizedLine ==
    /\ pc = "line"
    /\ line # NoLine
    /\ ~line.m
    /\ line.text = "ldd: warning"

\* The step visits a pair whose name has a recorded location that is not
\* the same underlying file as the pair's location.
ConflictStep ==
    /\ pc = "record"
    /\ \E pair \in dep_info_list :
        /\ dep_info_list' = dep_info_list \ {pair}
        /\ pair[1] \in DOMAIN binary_name_to_location_map
        /\ Inode(binary_name_to_location_map[pair[1]]) # Inode(pair[2])

\* C6: a step that meets a fatal condition (invalid target or output
\* directory, unrecognized line, unresolved dependency, conflict) ends the
\* process with exit code 1 and nothing copied, no JSON and no manifest;
\* output is produced only once deps_remaining is empty and no fatal exit
\* was taken, and from there the run ends with exit code 0.
C6_NoPartialOutput ==
    /\ [][(InvalidArguments \/ UnrecognizedLine \/ UnresolvedEntry \/ ConflictStep)
            => (pc' = "exit" /\ exit_code' = <<1>> /\ NoOutput')]_vars
    /\ [](Fatal => NoOutput)
    /\ [](~NoOutput => (/\ deps_remaining = {}
                        /\ pc \in {"copy", "manifest", "exit"}
                        /\ exit_code # <<1>>))
    /\ [][(pc \in {"closure", "copy", "manifest"}) => (exit_code' # <<1>>)]_vars
    /\ [](pc = "exit" => exit_code \in {<<0>>, <<1>>})
    /\ [][(pc = "manifest") => (pc' = "exit" /\ exit_code' = <<0>>)]_vars

\* A conflict has ended the run.
C6_Witness ==
    /\ Fatal
    /\ ConflictReported
    /\ NoOutput
    /\ binary_deps # NoMap

\* C7: outside the lookup of one binary, also after a fatal abort of it,
\* search_directories is the caller-supplied list.
C7_SearchDirectoriesRestored ==
    pc \notin {"ldd", "line"} => search_directories = CallerDirs

\* C8: while binary x is looked up the list searched is the caller-supplied
\* directories followed by the directory of x's location and nothing else,
\* and each dependency of x is given (fix_location of) <D>/d for the first
\* directory D of that list holding a regular file d; the location recorded
\* or compared for d is that file.
C8_FirstDirectoryOfOwnList ==
    /\ pc \in {"ldd", "line"} => search_directories = SearchedFor(x)
    /\ pc \in {"ldd", "line", "record"}
          => \A pair \in ret \cup dep_info_list :
                /\ FirstDirWith(SearchedFor(x), pair[1]) # <<>>
                /\ pair[2] = ResolvedIn(SearchedFor(x), pair[1])
    /\ pc = "record"
          => \A n \in deps_for_this_library :
                /\ n \in DOMAIN binary_name_to_location_map
                /\ FirstDirWith(SearchedFor(x), n) # <<>>
                /\ samefile(binary_name_to_location_map[n],
                            ResolvedIn(SearchedFor(x), n))

\* A library other than the root lists a dependency found in the second
\* caller-supplied directory; the root's directory is not searched for it.
C8_Witness ==
    /\ pc = "record"
    /\ x # binary_key_name
    /\ dirname(binary_name_to_location_map[x]).id # TargetDirId
    /\ \E pair \in dep_info_list : pair[2].dir.id = CallerDirs[2].id

\* C9: between loop iterations every key in a binary_deps list is a key of
\* binary_deps or an element of deps_remaining, and every key of binary_deps
\* is a key of binary_name_to_location_map.
C9_GraphInvariant ==
    pc = "loop"
        => /\ \A k \in DOMAIN binary_deps :
                \A n \in Range(binary_deps[k]) :
                    n \in DOMAIN binary_deps \/ n \in deps_remaining
           /\ DOMAIN binary_deps \subseteq DOMAIN binary_name_to_location_map

\* The root has one dependency processed and one still pending.
C9_Witness ==
    /\ pc = "loop"
    /\ binary_key_name \in DOMAIN binary_deps
    /\ \E a, b \in Range(binary_deps[binary_key_name]) :
        /\ a \in DOMAIN binary_deps
        /\ b \in deps_remaining
        /\ b \notin DOMAIN binary_deps

\* C10: no step changes or removes a location once it is set.
C10_LocationsNeverChange ==
    [][\A k \in DOMAIN binary_name_to_location_map :
          /\ k \in DOMAIN binary_name_to_location_map'
          /\ binary_name_to_location_map'[k] = binary_name_to_location_map[k]]_vars

\* A name that had a location is resolved again by another binary, to a
\* path that differs from the one recorded.
C10_Witness ==
    /\ pc = "record"
    /\ \E n \in deps_for_this_library :
        /\ DependencyReached(n) \/ n = binary_key_name
        /\ FirstDirWith(SearchedFor(x), n) # <<>>
        /\ binary_name_to_location_map[n] # ResolvedIn(SearchedFor(x), n)

\* C11: no key of binary_deps is an element of its own list; while binary x
\* is processed an entry of its listing that names x is given no location
\* of x other than the recorded one, is never enqueued, and never reaches
\* binary_deps[x] (where the filter lets it through, on win32 for the
\* renamed root, the run ends fatally before the edge is stored).
C11_NoSelfEdge ==
    /\ \A k \in DOMAIN binary_deps : k \notin Range(binary_deps[k])
    /\ pc \in {"ldd", "line", "record"}
          => /\ x \notin deps_remaining
             /\ x \notin deps_for_this_library \/ pc # "record"
             /\ \A pair \in ret \cup dep_info_list :
                   pair[1] = x
                      => /\ platform = "win32" /\ x = binary_key_name
                         /\ ~samefile(binary_name_to_location_map[x], pair[2])

\* On win32 the listing of the renamed root named the root's key, the name
\* was found in a search directory, and the run has ended on the conflict.
C11_Witness ==
    /\ Fatal
    /\ ConflictReported
    /\ platform = "win32"
    /\ x = binary_key_name
    /\ x \in deps_for_this_library
    /\ binary_deps = NoMap

\* The named system-library substrings, on whatever platform.
NamedSystemLibrary(l) ==
    l.m /\ l.ldd_dep_location = "/lib/x86_64-linux-gnu/libm.so.6"

\* The reported location lies in a Windows system directory.
PlatformSystemPath(l) ==
    l.m /\ l.ldd_dep_location = "/c/Windows/System32"

\* The step handles the line and the line leaves no trace: no pair, no
\* location, nothing enqueued, no exit.
LineContributesNothing ==
    /\ ret' = ret
    /\ binary_name_to_location_map' = binary_name_to_location_map
    /\ deps_remaining' = deps_remaining
    /\ binary_deps' = binary_deps
    /\ pc' = "ldd"
    /\ exit_code' = <<>>

\* C12 as stated: an entry whose reported location contains a Windows system
\* path or one of the named system-library substrings contributes nothing
\* and triggers no resolution error, on every platform.
C12_SkipPatternOnAnyPlatform ==
    [][(pc = "line" /\ (PlatformSystemPath(line) \/ NamedSystemLibrary(line)))
          => LineContributesNothing]_vars

\* C12 as amended: the named system-library substrings are skip patterns on
\* linux only; the Windows system paths are skip patterns on every platform.
\* An entry matching a pattern of the platform contributes nothing and
\* triggers no resolution error, whether or not its name is resolvable; so
\* no pair ever stems from such an entry.
C12_SkipPatternOfPlatform ==
    [][(pc = "line" /\ (\/ PlatformSystemPath(line)
                        \/ platform = "linux" /\ NamedSystemLibrary(line)))
          => LineContributesNothing]_vars

\* After one dependency was resolved the listing names a second library at
\* a skipped location, a library that a searched directory holds.
C12_Witness ==
    /\ pc = "line"
    /\ ret # {}
    /\ PlatformSystemPath(line) \/ (platform = "linux" /\ NamedSystemLibrary(line))
    /\ line.dep_name # x
    /\ FirstDirWith(SearchedFor(x), line.dep_name) # <<>>
    /\ line.dep_name \notin {pair[1] : pair \in ret}

\* C13: a line that is neither an entry nor a benign skip line ends the run
\* at that line with exit code 1; get_deps_for_binary yields its set only at
\* the end of the lister's output, and binary_deps[x] is stored only after
\* every pair of that set was visited, so no entry of binary_deps comes from
\* a listing that was read in part.
C13_NoPartialListing ==
    /\ [][UnrecognizedLine
            => /\ pc' = "exit"
               /\ exit_code' = <<1>>
               /\ message' = "Unexpected line in ldd output"
               /\ binary_deps' = binary_deps]_vars
    /\ [][(pc = "line" /\ pc' # "exit")
            => \/ line = NoLine /\ pc' = "record"
               \/ line.m /\ pc' = "ldd"
               \/ line.text = "linux-vdso.so.1 (0x00007ffc)" /\ pc' = "ldd"]_vars
    /\ [][(binary_deps' # binary_deps)
            => /\ pc = "record"
               /\ dep_info_list = {}
               /\ DOMAIN binary_deps' = DOMAIN binary_deps \cup {x}]_vars
    /\ [](message = "Unexpected line in ldd output"
            => (Fatal /\ NoOutput /\ x \notin DOMAIN binary_deps))

\* The listing of a library gave one resolved entry and then a line of
\* neither shape; the run has ended and the library has no binary_deps entry.
C13_Witness ==
    /\ Fatal
    /\ message = "Unexpected line in ldd output"
    /\ line = Other("ldd: warning")
    /\ ret # {}
    /\ x # binary_key_name
    /\ x \notin DOMAIN binary_deps

\* C14: once the work queue is empty, the closure, the copies, the JSON and
\* the manifest leave binary_deps and binary_name_to_location_map as they
\* were when the build loop ended.
C14_ExportsLeaveGraph ==
    [][((pc = "loop" /\ deps_remaining = {}) \/ pc \in {"closure", "copy", "manifest"})
          => /\ binary_deps' = binary_deps
             /\ binary_name_to_location_map' = binary_name_to_location_map]_vars

\* A successful run with a closure of two or more members, all outputs
\* written; the JSON holds the graph the build loop left.
C14_Witness ==
    /\ pc = "exit"
    /\ exit_code = <<0>>
    /\ Len(copied) >= 2
    /\ manifest_file # <<>>
    /\ json_file = <<[binary_deps |-> binary_deps,
                      binary_locations |-> binary_name_to_location_map]>>
    /\ Len(binary_deps[binary_key_name]) >= 1

\* The names of the files copied, in the order of the copies.
CopiedNames == [i \in 1..Len(copied) |-> copied[i].name]

\* seq lists the names of S, each once, in ascending order of key.
AscendingListOf(seq, S) ==
    /\ Range(seq) = S
    /\ \A i, j \in 1..Len(seq) : i < j => KeyRank(seq[i]) < KeyRank(seq[j])

\* C15: in a successful run the files copied and the <file> entries of the
\* manifest are one sequence: the keys reachable from the root by one or
\* more edges (the set get_all_deps_for_binary returned), each once, in
\* ascending order of key, each copied from its recorded location.
C15_CopiesAndManifestAgree ==
    (pc = "exit" /\ exit_code = <<0>>)
        => /\ AscendingListOf(CopiedNames, Reachable(binary_deps, binary_key_name))
           /\ Range(CopiedNames) = closure_ret
           /\ \A i \in 1..Len(copied) :
                 copied[i].src = binary_name_to_location_map[copied[i].name]
           /\ manifest_file # <<>> => manifest_file[1].files = CopiedNames

\* The root depends on libB.so alone and libB.so on libA.so: the closure
\* discovers libB.so first, and libA.so is copied and listed first.
C15_Witness ==
    /\ pc = "exit"
    /\ exit_code = <<0>>
    /\ binary_deps[binary_key_name] = <<AllKeys[3]>>
    /\ binary_deps[AllKeys[3]] = <<AllKeys[2]>>
    /\ CopiedNames = <<AllKeys[2], AllKeys[3]>>
    /\ manifest_file # <<>>

\* The build loop is running.
BuildLoopRunning == pc \in {"loop", "ldd", "line", "record"}

\* The build loop has ended: with an empty work queue, or by a fatal exit.
BuildLoopEnded == (pc = "loop" /\ deps_remaining = {}) \/ ~BuildLoopRunning

\* C16: whatever the dependency relation (mutual dependencies and cycles
\* through the root included), and every listing being finite, the build
\* loop reaches an empty work queue or a fatal exit, and the loop of
\* get_all_deps_for_binary returns.
C16_LoopsTerminate ==
    /\ BuildLoopRunning ~> BuildLoopEnded
    /\ (pc = "closure") ~> (pc = "copy")

\* The closure is computed on a graph with a cycle through the root.
C16_Witness ==
    /\ pc = "closure"
    /\ binary_key_name \in Reachable(binary_deps, binary_key_name)
    /\ \E k \in DOMAIN binary_deps \ {binary_key_name} :
          k \in Reachable(binary_deps, k)

\* The step starts the lister for one binary.
ListerInvoked == pc = "loop" /\ pc' = "ldd"

\* C17: the lister is started only for a key not visited before, the key is
\* visited from then on and deps_visited never loses a key, so no key is
\* listed twice; a key becomes visited only by being listed, and when the
\* build loop ends without a fatal exit the keys listed are the root and
\* the keys reachable from it, each a key of binary_deps.
C17_ListerOncePerKey ==
    /\ [][ListerInvoked => (x' \notin deps_visited /\ x' \in deps_visited')]_vars
    /\ [][deps_visited \subseteq deps_visited']_vars
    /\ [][(deps_visited' # deps_visited)
            => (ListerInvoked /\ deps_visited' = deps_visited \cup {x'})]_vars
    /\ []((pc = "loop" /\ deps_remaining = {} /\ deps_visited # {}) \/ ClosureReturned
            => /\ deps_visited = {binary_key_name}
                                   \cup Reachable(binary_deps, binary_key_name)
               /\ DOMAIN binary_deps = deps_visited)

\* A successful run in which a library listed by the root is listed again
\* by another library, after it was visited.
C17_Witness ==
    /\ pc = "exit"
    /\ exit_code = <<0>>
    /\ deps_visited = Keys
    /\ \E k \in Range(binary_deps[binary_key_name]) :
          \E a \in DOMAIN binary_deps \ {binary_key_name, k} :
              /\ k \in Range(binary_deps[a])
              /\ a \in Range(binary_deps[k])

\* C18: a step that visits a pair whose name has a recorded location of
\* another underlying file ends the run with exit code 1 and leaves the
\* recorded location; the for loop of main() ends the run in no other case,
\* so a pair whose path differs from the recorded one but denotes the same
\* file is accepted; hence for every binary k with a binary_deps entry each
\* name listed was resolved by k to the file recorded for the name.
C18_ConflictIsByFileIdentity ==
    /\ [][ConflictStep
            => /\ pc' = "exit"
               /\ exit_code' = <<1>>
               /\ binary_name_to_location_map' = binary_name_to_location_map]_vars
    /\ [][(pc = "record" /\ pc' = "exit") => ConflictStep]_vars
    /\ [](\A k \in DOMAIN binary_deps :
            \A n \in Range(binary_deps[k]) :
                /\ n \in DOMAIN binary_name_to_location_map
                /\ FirstDirWith(SearchedFor(k), n) # <<>>
                /\ samefile(binary_name_to_location_map[n],
                            ResolvedIn(SearchedFor(k), n)))

\* A successful run in which a binary resolved a name to a path other than
\* the recorded one, both denoting one file.
C18_Witness ==
    /\ pc = "exit"
    /\ exit_code = <<0>>
    /\ \E k \in DOMAIN binary_deps :
          \E n \in Range(binary_deps[k]) :
              /\ binary_name_to_location_map[n] # ResolvedIn(SearchedFor(k), n)
              /\ samefile(binary_name_to_location_map[n],
                          ResolvedIn(SearchedFor(k), n))

\* C19: on one platform, one filesystem and one listing per key, every run
\* of the build loop ends as the run that pops the least key first ends:
\* every run in a fatal exit, or every run with an empty work queue and the
\* same binary_deps and the same binary_name_to_location_map.
C19_OrderIndependent ==
    /\ (pc = "loop" /\ deps_remaining = {})
          => /\ ~build_graph.fatal
             /\ binary_deps = build_graph.deps
             /\ binary_name_to_location_map = build_graph.map
    /\ Fatal => build_graph.fatal

\* The root lists libA.so and libB.so, libB.so was popped before libA.so,
\* and the loop has ended with a graph that holds a cycle.
C19_Witness ==
    /\ pc = "loop"
    /\ deps_remaining = {}
    /\ binary_deps[binary_key_name] = <<AllKeys[2], AllKeys[3]>>
    /\ x = AllKeys[2]
    /\ binary_deps[AllKeys[2]] # <<>>
    /\ binary_deps[AllKeys[3]] # <<>>

\* C20: when the build loop has ended without a fatal exit the keys of
\* binary_deps, deps_visited and the keys of binary_name_to_location_map
\* are one set and every name in a binary_deps list is a key of
\* binary_deps; the closure never meets a key missing from binary_deps (nor
\* a root without entry) and the copy loop never a member without location.
C20_KeySetsAgree ==
    /\ ((pc = "loop" /\ deps_remaining = {}) \/ pc \in {"closure", "copy", "manifest"})
          => /\ DOMAIN binary_deps = deps_visited
             /\ DOMAIN binary_deps = DOMAIN binary_name_to_location_map
             /\ binary_key_name \in DOMAIN binary_deps
             /\ \A k \in DOMAIN binary_deps :
                   Range(binary_deps[k]) \subseteq DOMAIN binary_deps
    /\ pc = "closure"
          => /\ Range(deps_list.items) \subseteq DOMAIN binary_deps
             /\ closure_ret \subseteq DOMAIN binary_deps
    /\ pc = "copy"
          => Range(full_deps_list) \subseteq DOMAIN binary_name_to_location_map
    /\ message \notin {"KeyError", "TypeError"}

\* The closure is under way on a graph of three keys, one found through a
\* library only.
C20_Witness ==
    /\ pc = "closure"
    /\ DOMAIN binary_deps = Keys
    /\ closure_ret # {}
    /\ deps_list.items # <<>>
    /\ \E k \in Keys : k \notin Range(binary_deps[binary_key_name]) \cup {binary_key_name}

====
